---- MODULE Spec2Model ----
(***************************************************************************)
(* Model of the extraction client of post-call-intelligence:               *)
(* initializeOpenAI / ensureOpenAIClient / getAIAnalysis of the analysis   *)
(* router, and its POST /analyze handler.  One analyze invocation, made    *)
(* directly or by the handler, is followed from its call to its outcome;   *)
(* the provider (the transport) answers each outbound call with a          *)
(* completion or with an error drawn from a bounded set.  The page          *)
(* (public/app.js) is followed in UISpec, from its load through scenario   *)
(* selections, analyze requests and approvals, and in ReviewSpec, the      *)
(* review of one received analysis: the editor and POST /finalize.         *)
(***************************************************************************)
EXTENDS Integers, Sequences, FiniteSets, TLC

VARIABLES
    env,            \* process.env: the three AZURE_OPENAI_* values
    openaiClient,   \* the module-level client (null until constructed)
    pc,             \* position of the analyze invocation
    transcription,  \* the argument of the invocation
    calls,          \* outbound calls issued by the invocation, in order
    outstanding,    \* outbound calls issued and not yet settled
    settled,        \* what the transport answered to each call, in order
    parsed,         \* texts handed to JSON.parse by the invocation
    outcome,        \* what the invocation returned or threw
    route,          \* position of the POST /analyze handler that made the invocation
    res,            \* HTTP responses the handler has sent for the request
    selectedScenario,       \* app.js: the scenario the user selected (null until then)
    currentAnalysisResult,  \* app.js: the analysis the page holds (null until received)
    analyzeBtn,             \* the Analyze button: disabled, and whether onclick is attached
    display,                \* which of mainDemo, reviewSection, editModal are displayed
    editForm,               \* the values of the five controls of the edit form
    inFlight,               \* POST /api/analyze requests sent and not yet settled
    arrived,                \* an analysis was received since the last scenario selection
    answered,               \* the status and error text the last settled analyze request settled with
    shownError,             \* the message showError last wrote into the page
    finalized,              \* bodies of the POST /api/finalize requests sent and not yet answered
    crmRecord               \* the CRM record the page displays in its CRM section

vars == <<env, openaiClient, pc, transcription, calls, outstanding, settled, parsed, outcome, route, res,
          selectedScenario, currentAnalysisResult, analyzeBtn, display, editForm, inFlight,
          arrived, answered, shownError, finalized, crmRecord>>

----------------------------------------------------------------------------
(* Values *)

\* process.env.X is undefined (or the empty string): falsy at line 67
Unset == "<unset>"
\* the endpoint is a text, modelled as its sequence of pieces; the empty text is falsy
EndpointUnset == <<>>
Undefined == "<undefined>"
Null == "<null>"
\* an error without an HTTP status (status is undefined)
NoStatus == 0

Endpoints == {EndpointUnset, <<"https://res.openai.azure.com">>, <<"https://res.openai.azure.com", "/">>}
Keys == {Unset, "key-1"}
Deployments == {Unset, "gpt-4o", "gpt-5"}
Transcripts == {"Agent: How can I help?\n\nCustomer: My order 12345 never arrived.", "Agent: Hello."}

Envs == [AZURE_OPENAI_ENDPOINT : Endpoints, AZURE_OPENAI_KEY : Keys, AZURE_OPENAI_DEPLOYMENT : Deployments]

\* JS truthiness of a string value (undefined, null and "" are falsy)
Truthy(v) == v # Unset /\ v # Undefined /\ v # Null /\ v # ""
\* JS truthiness of a text modelled as a sequence of pieces
TruthyText(s) == s # <<>>

\* `${v}` : interpolation of a value in a template literal
TemplateStr(v) == IF v = Unset THEN "undefined" ELSE v

\* let openaiClient = null
NoClient == [constructed |-> FALSE, apiKey |-> Unset, baseURL |-> <<>>,
             defaultQuery |-> "none", apiKeyHeader |-> Unset]

----------------------------------------------------------------------------
(* customerServiceSchema *)

customerServiceSchema ==
    [type |-> "object",
     properties |-> {"sentiment", "escalationRisk", "primaryIntent", "keyInformation",
                     "suggestedActions", "commitments", "confidenceScore", "summary"},
     keyInformation |-> {"orderNumber", "customerEmail", "productSKU", "issueDate", "customerPhone"},
     required |-> {"sentiment", "escalationRisk", "primaryIntent", "keyInformation",
                   "suggestedActions", "commitments", "confidenceScore", "summary"},
     additionalProperties |-> FALSE]

----------------------------------------------------------------------------
(* Errors *)

\* an Error object: the fields the code reads or a caller can read
MkError(name, message, status, respStatus, code, cause) ==
    [name |-> name, message |-> message, status |-> status,
     respStatus |-> respStatus, code |-> code, cause |-> cause]

NotConfiguredMsg == <<"Azure OpenAI client not configured.", "Please set", "AZURE_OPENAI_ENDPOINT,",
                      "AZURE_OPENAI_KEY", "and", "AZURE_OPENAI_DEPLOYMENT.">>
TruncatedMsg == <<"Response was truncated due to token limit.", "The analysis may be incomplete.">>
MissingContentMsg == <<"Unexpected OpenAI response format:", "missing content">>
InvalidJsonMsg == <<"Failed to parse AI response.", "Response was not valid JSON.">>
AuthFailedMsg == <<"Authentication failed.", "Check your API key.">>
DeploymentNotFoundMsg(d) == <<"Deployment '", TemplateStr(d), "' not found.", "Check your deployment name.">>

NotConfiguredError == MkError("Error", NotConfiguredMsg, NoStatus, NoStatus, "OPENAI_NOT_CONFIGURED", "none")
TruncatedError == MkError("Error", TruncatedMsg, NoStatus, NoStatus, "none", "none")
MissingContentError == MkError("Error", MissingContentMsg, NoStatus, NoStatus, "none", "none")
InvalidJsonError == MkError("Error", InvalidJsonMsg, NoStatus, NoStatus, "none", "none")
AuthFailedError == MkError("Error", AuthFailedMsg, NoStatus, NoStatus, "none", "none")
DeploymentNotFoundError(d) == MkError("Error", DeploymentNotFoundMsg(d), NoStatus, NoStatus, "none", "none")

\* reading a property of undefined: response.choices[0].finish_reason on a
\* response without a first choice
TypeErrorOf(prop) == MkError("TypeError", <<"Cannot read properties of undefined", prop>>,
                             NoStatus, NoStatus, "none", "none")

\* message.includes(word): the message is modelled as its sequence of pieces
Includes(message, word) == \E i \in 1..Len(message) : message[i] = word

NoError == MkError("none", <<>>, NoStatus, NoStatus, "none", "none")

----------------------------------------------------------------------------
(* The transport: what openaiClient.chat.completions.create can answer *)

\* errors the provider / the SDK raises: status, message, code
TransportErrors ==
    { MkError("BadRequestError", <<"400", "Unsupported parameter:", "max_tokens", "is not supported with this model.">>,
              400, NoStatus, "unsupported_parameter", "none"),
      MkError("BadRequestError", <<"400", "Unsupported value:", "temperature", "does not support 0.1 with this model.">>,
              400, NoStatus, "unsupported_value", "none"),
      MkError("BadRequestError", <<"400", "Unsupported parameter:", "max_completion_tokens", "is not supported.">>,
              400, NoStatus, "unsupported_parameter", "none"),
      MkError("BadRequestError", <<"400", "Invalid schema for response_format">>,
              400, NoStatus, "invalid_request_error", "none"),
      MkError("BadRequestError", <<>>, 400, NoStatus, "none", "none"),
      MkError("AuthenticationError", <<"401", "Access denied due to invalid subscription key.">>,
              401, NoStatus, "401", "none"),
      MkError("NotFoundError", <<"404", "Resource not found">>, 404, NoStatus, "404", "none"),
      MkError("Error", <<"Request failed with status code 404">>, NoStatus, 404, "none", "none"),
      MkError("RateLimitError", <<"429", "Rate limit exceeded", "temperature">>, 429, NoStatus, "429", "none"),
      MkError("InternalServerError", <<"500", "Internal server error">>, 500, NoStatus, "none", "none"),
      MkError("APIConnectionError", <<"Connection error.">>, NoStatus, NoStatus, "none", "none") }

\* texts the provider may put at choices[0].message.content
FullJson == "{\"sentiment\":\"negative\",\"escalationRisk\":\"medium\", ...all eight fields... }"
EmptyObjectJson == "{}"
NullJson == "null"
NumberJson == "42"
ExtraFieldJson == "{...all eight fields..., \"extra\":1}"
PartialJson == "{\"sentiment\":\"negative\",\"escalat"
NotJson == "Here is the analysis you asked for"

JsonTexts == {FullJson, EmptyObjectJson, NullJson, NumberJson, ExtraFieldJson}
Contents == JsonTexts \cup {PartialJson, NotJson, "", Null}

FinishReasons == {"stop", "length"}

\* a choice of the completion: message may be missing
Choices ==
    [finish_reason : FinishReasons, hasMessage : {TRUE}, content : Contents]
    \cup [finish_reason : FinishReasons, hasMessage : {FALSE}, content : {Undefined}]

\* a completion: the choices list may be missing, empty, or hold one choice
Responses ==
    { [hasChoices |-> FALSE, choices |-> <<>>], [hasChoices |-> TRUE, choices |-> <<>>] }
    \cup { [hasChoices |-> TRUE, choices |-> <<c>>] : c \in Choices }

NoResponse == [hasChoices |-> FALSE, choices |-> <<>>]

----------------------------------------------------------------------------
(* JSON.parse *)

\* a decoded JSON value: its type, the top-level fields of an object, the
\* fields of its keyInformation, and the scalars the program reads
JsonValue(type, keys, ki, sentiment, risk) ==
    [type |-> type, keys |-> keys, keyInformation |-> ki,
     sentiment |-> sentiment, escalationRisk |-> risk]

NoValue == JsonValue("undefined", {}, {}, "none", "none")

\* JSON.parse(text): the decoded value, or a SyntaxError
JSONParse(text) ==
    CASE text = FullJson ->
           [ok |-> TRUE, value |-> JsonValue("object", customerServiceSchema.required,
                                             customerServiceSchema.keyInformation, "negative", "medium")]
      [] text = ExtraFieldJson ->
           [ok |-> TRUE, value |-> JsonValue("object", customerServiceSchema.required \cup {"extra"},
                                             customerServiceSchema.keyInformation, "negative", "medium")]
      [] text = EmptyObjectJson -> [ok |-> TRUE, value |-> JsonValue("object", {}, {}, "none", "none")]
      [] text = NullJson -> [ok |-> TRUE, value |-> JsonValue("null", {}, {}, "none", "none")]
      [] text = NumberJson -> [ok |-> TRUE, value |-> JsonValue("number", {}, {}, "none", "none")]
      [] OTHER -> [ok |-> FALSE, value |-> NoValue]

\* the SyntaxError JSON.parse raises
SyntaxErrorName == "SyntaxError"

----------------------------------------------------------------------------
(* initializeOpenAI / ensureOpenAIClient *)

\* cleanEndpoint leaving the trailing slash
cleanEndpoint_NoStrip(endpoint) == endpoint

\* process.env.AZURE_OPENAI_ENDPOINT.replace(/\/$/, '')
cleanEndpoint(endpoint) ==
    IF Len(endpoint) > 0 /\ endpoint[Len(endpoint)] = "/"
    THEN SubSeq(endpoint, 1, Len(endpoint) - 1)
    ELSE endpoint

\* the condition of line 67
CanInitialize(client, e) ==
    /\ ~client.constructed
    /\ TruthyText(e.AZURE_OPENAI_ENDPOINT)
    /\ Truthy(e.AZURE_OPENAI_KEY)

\* new OpenAI({...}) of lines 69-76
NewOpenAI(e) ==
    [constructed |-> TRUE,
     apiKey |-> e.AZURE_OPENAI_KEY,
     baseURL |-> cleanEndpoint(e.AZURE_OPENAI_ENDPOINT)
                 \o <<"/openai/deployments/", TemplateStr(e.AZURE_OPENAI_DEPLOYMENT)>>,
     defaultQuery |-> "api-version=2024-08-01-preview",
     apiKeyHeader |-> e.AZURE_OPENAI_KEY]

\* initializeOpenAI without the !openaiClient test
initializeOpenAI_Always(client, e) ==
    IF TruthyText(e.AZURE_OPENAI_ENDPOINT) /\ Truthy(e.AZURE_OPENAI_KEY) THEN NewOpenAI(e) ELSE client

\* the value of openaiClient after initializeOpenAI()
initializeOpenAI(client, e) ==
    IF CanInitialize(client, e) THEN NewOpenAI(e) ELSE client

\* ensureOpenAIClient dropping the client when the environment is incomplete
ensureOpenAIClient_Reset(client, e) ==
    IF TruthyText(e.AZURE_OPENAI_ENDPOINT) /\ Truthy(e.AZURE_OPENAI_KEY)
    THEN [client |-> initializeOpenAI(client, e), threw |-> FALSE]
    ELSE [client |-> NoClient, threw |-> TRUE]

\* ensureOpenAIClient(): the client after the call, and whether it threw
ensureOpenAIClient(client, e) ==
    LET c == initializeOpenAI(client, e)
    IN  [client |-> c, threw |-> ~c.constructed]

----------------------------------------------------------------------------
(* getAIAnalysis: the request *)

SystemInstruction == "You are a customer service analysis expert. Extract accurate information from call transcripts to populate CRM systems. Follow the schema exactly."

\* the prompt: the task description with the transcript embedded verbatim
Prompt(t) == <<"Analyze this customer service call transcript ...", "TRANSCRIPT:", t, "Focus on: ...">>

baseParams(e, t) ==
    [model |-> e.AZURE_OPENAI_DEPLOYMENT,
     messages |-> << [role |-> "system", content |-> <<SystemInstruction>>],
                     [role |-> "user", content |-> Prompt(t)] >>,
     response_format |-> [type |-> "json_schema", name |-> "customer_service_analysis",
                          strict |-> TRUE, schema |-> customerServiceSchema]]

\* {...baseParams, temperature: 0.1, max_tokens: 1000}
LegacyParams(e, t) ==
    [profile |-> [temperature |-> "0.1", max_tokens |-> 1000], base |-> baseParams(e, t)]

\* AlternateParams built on the first call's parameters
AlternateParams_KeepsTemperature(e, t) ==
    [profile |-> [temperature |-> "0.1", max_tokens |-> 1000, max_completion_tokens |-> 2000],
     base |-> baseParams(e, t)]

\* {...baseParams, max_completion_tokens: 2000}
AlternateParams(e, t) ==
    [profile |-> [max_completion_tokens |-> 2000], base |-> baseParams(e, t)]

----------------------------------------------------------------------------
(* getAIAnalysis: fallback, validation, classification *)

Returned(v, texts) == [kind |-> "returned", value |-> v, error |-> NoError, parsed |-> texts]
Thrown(err, texts) == [kind |-> "thrown", value |-> NoValue, error |-> err, parsed |-> texts]

\* ShouldFallback looking for max_tokens only
ShouldFallback_MaxTokensOnly(gpt4Error) ==
    /\ gpt4Error.status = 400
    /\ Includes(gpt4Error.message, "max_tokens")

\* ShouldFallback without the status test
ShouldFallback_AnyStatus(gpt4Error) ==
    Includes(gpt4Error.message, "max_tokens") \/ Includes(gpt4Error.message, "temperature")

\* the condition of lines 196-197 on the error of the first call
ShouldFallback(gpt4Error) ==
    /\ gpt4Error.status = 400
    /\ (Includes(gpt4Error.message, "max_tokens") \/ Includes(gpt4Error.message, "temperature"))

\* response?.choices?.[0]?.message?.content
rawContent(response) ==
    IF response.hasChoices /\ Len(response.choices) > 0 /\ response.choices[1].hasMessage
    THEN response.choices[1].content
    ELSE Undefined

\* ParseContent swallowing the decode failure
ParseContent_Swallow(raw) ==
    LET p == JSONParse(raw)
    IN  IF p.ok THEN Returned(p.value, <<raw>>) ELSE Returned(NoValue, <<raw>>)

\* ParseContent keeping only the fields the schema names
ParseContent_StripExtra(raw) ==
    LET p == JSONParse(raw)
    IN  IF p.ok
        THEN Returned([p.value EXCEPT !.keys = @ \cap customerServiceSchema.required], <<raw>>)
        ELSE Thrown(InvalidJsonError, <<raw>>)

\* ParseContent rejecting a decoded value that does not have the schema's fields
ParseContent_Validate(raw) ==
    LET p == JSONParse(raw)
    IN  IF p.ok /\ p.value.keys = customerServiceSchema.required
        THEN Returned(p.value, <<raw>>)
        ELSE Thrown(InvalidJsonError, <<raw>>)

\* lines 219-223: JSON.parse in its own try/catch
ParseContent(raw) ==
    LET p == JSONParse(raw)
    IN  IF p.ok THEN Returned(p.value, <<raw>>) ELSE Thrown(InvalidJsonError, <<raw>>)

\* lines 213-223: the content check, then the parse
CheckContent(response) ==
    IF ~Truthy(rawContent(response))
    THEN Thrown(MissingContentError, <<>>)
    ELSE ParseContent(rawContent(response))

\* ValidateResponse with the content check and the parse ahead of the
\* truncation check
ValidateResponse_ContentFirst(response) ==
    IF ~response.hasChoices THEN Thrown(TypeErrorOf("(reading '0')"), <<>>)
    ELSE IF Len(response.choices) = 0 THEN Thrown(TypeErrorOf("(reading 'finish_reason')"), <<>>)
    ELSE IF CheckContent(response).kind = "thrown" THEN CheckContent(response)
    ELSE IF response.choices[1].finish_reason = "length" THEN Thrown(TruncatedError, CheckContent(response).parsed)
    ELSE CheckContent(response)

\* lines 208-223: response.choices[0].finish_reason is read without a guard,
\* then the truncation check, the content check and the parse
ValidateResponse(response) ==
    IF ~response.hasChoices THEN Thrown(TypeErrorOf("(reading '0')"), <<>>)
    ELSE IF Len(response.choices) = 0 THEN Thrown(TypeErrorOf("(reading 'finish_reason')"), <<>>)
    ELSE IF response.choices[1].finish_reason = "length" THEN Thrown(TruncatedError, <<>>)
    ELSE CheckContent(response)

\* error?.response?.status || error?.status
HttpStatus(error) == IF error.respStatus # NoStatus THEN error.respStatus ELSE error.status

\* ClassifyError without the 404 branch
ClassifyError_No404(error, e) ==
    IF error.code = "OPENAI_NOT_CONFIGURED" THEN error
    ELSE IF HttpStatus(error) = 401 THEN AuthFailedError
    ELSE error

\* ClassifyError without the 401 branch
ClassifyError_No401(error, e) ==
    IF error.code = "OPENAI_NOT_CONFIGURED" THEN error
    ELSE IF HttpStatus(error) = 404 THEN DeploymentNotFoundError(e.AZURE_OPENAI_DEPLOYMENT)
    ELSE error

\* ClassifyError rethrowing the other errors as new Error(error.message)
ClassifyError_Wrap(error, e) ==
    IF error.code = "OPENAI_NOT_CONFIGURED" THEN error
    ELSE IF HttpStatus(error) = 404 THEN DeploymentNotFoundError(e.AZURE_OPENAI_DEPLOYMENT)
    ELSE IF HttpStatus(error) = 401 THEN AuthFailedError
    ELSE MkError("Error", error.message, NoStatus, NoStatus, "none", "none")

\* ClassifyError rethrowing the other errors without their HTTP status
ClassifyError_DropStatus(error, e) ==
    IF error.code = "OPENAI_NOT_CONFIGURED" THEN error
    ELSE IF HttpStatus(error) = 404 THEN DeploymentNotFoundError(e.AZURE_OPENAI_DEPLOYMENT)
    ELSE IF HttpStatus(error) = 401 THEN AuthFailedError
    ELSE [error EXCEPT !.status = NoStatus, !.respStatus = NoStatus]

\* the catch block of lines 225-238: the error getAIAnalysis throws
ClassifyError(error, e) ==
    IF error.code = "OPENAI_NOT_CONFIGURED" THEN error
    ELSE IF HttpStatus(error) = 404 THEN DeploymentNotFoundError(e.AZURE_OPENAI_DEPLOYMENT)
    ELSE IF HttpStatus(error) = 401 THEN AuthFailedError
    ELSE error

\* whatever the try block produced, as it leaves getAIAnalysis
Leave(result, e) ==
    IF result.kind = "thrown"
    THEN [kind |-> "thrown", value |-> NoValue, error |-> ClassifyError(result.error, e)]
    ELSE [kind |-> "returned", value |-> result.value, error |-> NoError]

NoOutcome == [kind |-> "none", value |-> NoValue, error |-> NoError]

Resolved(r) == [kind |-> "resolved", response |-> r, error |-> NoError]
Rejected(err) == [kind |-> "rejected", response |-> NoResponse, error |-> err]

----------------------------------------------------------------------------
(* router.post('/analyze'): the response *)

\* a body without schema
NoSchema == [type |-> "undefined"]

AnalyzeErrorPrefix == "Failed to analyze conversation: "

\* RouteResponse answering a failure with a fixed text
RouteResponse_GenericError(o) ==
    IF o.kind = "returned"
    THEN [status |-> 200, success |-> TRUE, hasAnalysis |-> TRUE, analysis |-> o.value,
          schema |-> customerServiceSchema, error |-> <<>>]
    ELSE [status |-> 500, success |-> FALSE, hasAnalysis |-> FALSE, analysis |-> NoValue,
          schema |-> NoSchema, error |-> <<AnalyzeErrorPrefix>>]

\* what the handler sends: status, and the body { success, analysis, schema }
\* or { success, error }
RouteResponse(o) ==
    IF o.kind = "returned"
    THEN [status |-> 200, success |-> TRUE, hasAnalysis |-> TRUE, analysis |-> o.value,
          schema |-> customerServiceSchema, error |-> <<>>]
    ELSE [status |-> 500, success |-> FALSE, hasAnalysis |-> FALSE, analysis |-> NoValue,
          schema |-> NoSchema, error |-> <<AnalyzeErrorPrefix>> \o o.error.message]

----------------------------------------------------------------------------
(* The browser (public/app.js): values *)

\* numeric bounds of the browser model
MaxPending == 2
MaxFinalize == 1

\* GET /api/scenarios: the scenarios the page offers, each with its transcript
Scenarios ==
    { [id |-> "missing-order", transcription |-> "Agent: How can I help?\n\nCustomer: My order 12345 never arrived."],
      [id |-> "greeting", transcription |-> "Agent: Hello."] }

\* let selectedScenario = null
NoScenario == [id |-> Null, transcription |-> Undefined]

\* a text is the sequence of its pieces: words, "," , " " and markup characters
AnalysisFields == {"sentiment", "escalationRisk", "primaryIntent", "keyInformation",
                   "suggestedActions", "commitments", "confidenceScore", "summary"}
EditedFields == {"sentiment", "escalationRisk", "primaryIntent", "summary", "suggestedActions"}

\* an analysis object as the page holds it: the keys it has and their values
\* (a key it lacks reads as undefined)
MkAnalysis(keys, sentiment, risk, intent, summary, actions, ki, commitments, score) ==
    [type |-> "object", keys |-> keys, sentiment |-> sentiment, escalationRisk |-> risk,
     primaryIntent |-> intent, summary |-> summary, suggestedActions |-> actions,
     keyInformation |-> ki, commitments |-> commitments, confidenceScore |-> score]

\* let currentAnalysisResult = null
NullAnalysis ==
    [type |-> "null", keys |-> {}, sentiment |-> Undefined, escalationRisk |-> Undefined,
     primaryIntent |-> <<>>, summary |-> <<>>, suggestedActions |-> <<>>,
     keyInformation |-> [orderNumber |-> <<>>], commitments |-> <<>>, confidenceScore |-> 0]

\* what the provider extracts from transcript t: an analysis within the schema
\* whose actions survive the editor
CleanAnalysis(t) ==
    MkAnalysis(AnalysisFields, "frustrated", "high", <<"refund_request">>, <<"Summary of", t>>,
               << <<"send_replacement">>, <<"follow_up">> >>,
               [orderNumber |-> <<"order mentioned in", t>>], << <<"callback_by_friday">> >>, 90)

\* an analysis of t within the schema whose actions contain a comma, outer
\* spaces and an empty text
MessyAnalysis(t) ==
    MkAnalysis(AnalysisFields, "negative", "low", <<"billing_dispute">>, <<"Summary of", t>>,
               << <<"refund", ",", " ", "then", " ", "apologise">>, <<" ", "call_back", " ">>, <<>> >>,
               [orderNumber |-> <<"order mentioned in", t>>], << <<"callback_by_friday">> >>, 55)

\* an analysis of t whose enumerated values are outside the schema's enums
\* and whose intent contains a quote
OffSchemaAnalysis(t) ==
    MkAnalysis(AnalysisFields, "angry", "critical", <<"billing", "\"", "dispute">>, <<"Summary of", t>>,
               << <<"escalate">> >>,
               [orderNumber |-> <<"order mentioned in", t>>], <<>>, 55)

\* a medium-risk analysis of t
MediumAnalysis(t) ==
    MkAnalysis(AnalysisFields, "neutral", "medium", <<"order_status">>, <<"Summary of", t>>,
               << <<"track_order">> >>,
               [orderNumber |-> <<"order mentioned in", t>>], <<>>, 80)

\* the analysis values POST /api/analyze answers for transcript t while the
\* page's workflow is followed: an analysis, or the JSON null
AnalysesOf(t) == {CleanAnalysis(t), NullAnalysis}

\* the analyses of t a reviewer can be looking at
ReviewedAnalyses(t) == {CleanAnalysis(t), MessyAnalysis(t), OffSchemaAnalysis(t), MediumAnalysis(t)}

\* what fetch('/api/analyze') settles with: an HTTP response or a network failure
HttpAnswer(r, a) ==
    [kind |-> "http", ok |-> r.status \in 200..299, status |-> r.status, error |-> r.error, analysis |-> a]
NetworkFailure ==
    [kind |-> "network", ok |-> FALSE, status |-> NoStatus, error |-> <<"Failed to fetch">>, analysis |-> NullAnalysis]
NoAnswer ==
    [kind |-> "none", ok |-> FALSE, status |-> NoStatus, error |-> <<>>, analysis |-> NullAnalysis]

\* the route's answers to a request for transcript t: a 200 with an analysis,
\* or the 500 the route builds from a classified failure
AnalyzeAnswers(t) ==
    { HttpAnswer(RouteResponse(Returned(NoValue, <<>>)), a) : a \in AnalysesOf(t) }
    \cup { HttpAnswer(RouteResponse(Thrown(err, <<>>)), NullAnalysis) :
             err \in {DeploymentNotFoundError("gpt-4o"), AuthFailedError} }
    \cup { NetworkFailure }

----------------------------------------------------------------------------
(* The browser: the review editor's conversions *)

\* list.join(sep)
RECURSIVE Join(_, _)
Join(list, sep) ==
    IF list = <<>> THEN <<>>
    ELSE IF Len(list) = 1 THEN list[1]
    ELSE list[1] \o sep \o Join(Tail(list), sep)

\* the index of the first piece c of text, 0 when there is none
IndexOf(text, c) ==
    IF \E i \in 1..Len(text) : text[i] = c
    THEN CHOOSE i \in 1..Len(text) : text[i] = c /\ \A j \in 1..(i - 1) : text[j] # c
    ELSE 0

\* text.split(',')
RECURSIVE Split(_)
Split(text) ==
    IF IndexOf(text, ",") = 0 THEN <<text>>
    ELSE <<SubSeq(text, 1, IndexOf(text, ",") - 1)>>
         \o Split(SubSeq(text, IndexOf(text, ",") + 1, Len(text)))

\* value.trim()
RECURSIVE Trim(_)
Trim(text) ==
    IF text = <<>> THEN <<>>
    ELSE IF Head(text) = " " THEN Trim(Tail(text))
    ELSE IF text[Len(text)] = " " THEN Trim(SubSeq(text, 1, Len(text) - 1))
    ELSE text

\* list.map(value => value.trim())
TrimEach(list) == [i \in 1..Len(list) |-> Trim(list[i])]

NonEmptyText(value) == value # <<>>

\* inputString.split(',').map(value => value.trim()).filter(value => value)
parseCommaSeparatedValues(inputString) ==
    SelectSeq(TrimEach(Split(inputString)), NonEmptyText)

\* isSelected(currentValue, optionValue): whether the option gets 'selected'
isSelected(currentValue, optionValue) == currentValue = optionValue

\* the value of a <select> built from options: the selected option, or the
\* first option when none is marked selected
SelectValue(options, currentValue) ==
    IF \E i \in 1..Len(options) : isSelected(currentValue, options[i])
    THEN currentValue
    ELSE options[1]

\* the value of <input value="${text}">: the attribute ends at the first quote
AttributeValue(text) ==
    IF IndexOf(text, "\"") = 0 THEN text ELSE SubSeq(text, 1, IndexOf(text, "\"") - 1)

\* the value of <textarea>${text}</textarea>: the element ends at the first end tag
TextareaValue(text) ==
    IF IndexOf(text, "</textarea>") = 0 THEN text ELSE SubSeq(text, 1, IndexOf(text, "</textarea>") - 1)

\* `${analysis[field]}` for a text field: a missing key interpolates as "undefined"
TemplateText(analysis, field) ==
    IF field \in analysis.keys THEN analysis[field] ELSE <<"undefined">>

SentimentOptions == <<"positive", "neutral", "negative", "frustrated">>
RiskOptions == <<"low", "medium", "high">>

\* the five controls of the edit form
NoForm == [sentiment |-> Undefined, escalationRisk |-> Undefined,
           primaryIntent |-> <<>>, summary |-> <<>>, actions |-> <<>>]

\* createEditFormMarkup(analysis), as the values the controls then hold
createEditFormMarkup(analysis) ==
    [sentiment |-> SelectValue(SentimentOptions, analysis.sentiment),
     escalationRisk |-> SelectValue(RiskOptions, analysis.escalationRisk),
     primaryIntent |-> AttributeValue(TemplateText(analysis, "primaryIntent")),
     summary |-> TextareaValue(TemplateText(analysis, "summary")),
     actions |-> TextareaValue(Join(analysis.suggestedActions, <<",", " ">>))]

\* saveAnalysisEdits building a new object from the form alone
saveAnalysisEdits_NoSpread(analysis, form) ==
    [NullAnalysis EXCEPT
        !.type = "object",
        !.keys = EditedFields,
        !.sentiment = form.sentiment,
        !.escalationRisk = form.escalationRisk,
        !.primaryIntent = form.primaryIntent,
        !.summary = form.summary,
        !.suggestedActions = parseCommaSeparatedValues(form.actions)]

\* the object saveAnalysisEdits assigns: {...currentAnalysisResult, five fields}
saveAnalysisEdits(analysis, form) ==
    [analysis EXCEPT
        !.type = "object",
        !.keys = analysis.keys \cup EditedFields,
        !.sentiment = form.sentiment,
        !.escalationRisk = form.escalationRisk,
        !.primaryIntent = form.primaryIntent,
        !.summary = form.summary,
        !.suggestedActions = parseCommaSeparatedValues(form.actions)]

\* createAnalysisMarkup / buildCrmPayload run without a TypeError: the
\* analysis is an object and the values they call methods on are present
Renderable(analysis) ==
    /\ analysis.type = "object"
    /\ {"primaryIntent", "suggestedActions", "commitments"} \subseteq analysis.keys

----------------------------------------------------------------------------
(* POST /finalize: the mock CRM record *)

\* the instants new Date() can give, in milliseconds
Clock == {0, 5000}

Priority(escalationRisk) ==
    IF escalationRisk = "high" THEN "High"
    ELSE IF escalationRisk = "medium" THEN "Medium"
    ELSE "Low"

\* getEstimatedResolution rounding the window to whole days
getEstimatedResolution_WholeDays(now, riskLevel) ==
    now + (IF riskLevel = "high" THEN 24 ELSE IF riskLevel = "medium" THEN 24 ELSE 72) * 60 * 60 * 1000

\* getEstimatedResolution(riskLevel) at instant now; the ISO text it returns
\* denotes the instant, which is what the model keeps
getEstimatedResolution(now, riskLevel) ==
    now + (IF riskLevel = "high" THEN 4 ELSE IF riskLevel = "medium" THEN 24 ELSE 72) * 60 * 60 * 1000

NoRecord ==
    [created |-> FALSE, priority |-> "none", status |-> "none", createdAt |-> 0, estimatedResolution |-> 0]

\* createMockCRMRecord(analysis, scenarioId): the priority, status
\* and dates of the record built when the two new Date() of lines 256 and 266
\* give the instants created and now
createMockCRMRecord(analysis, scenarioId, created, now) ==
    [created |-> TRUE,
     priority |-> Priority(analysis.escalationRisk),
     status |-> "Active",
     createdAt |-> created,
     estimatedResolution |-> getEstimatedResolution(now, analysis.escalationRisk)]

----------------------------------------------------------------------------
(* The browser: the page after DOMContentLoaded *)

serverVars == <<env, openaiClient, pc, transcription, calls, outstanding, settled, parsed, outcome, route, res>>

uiVars == <<selectedScenario, currentAnalysisResult, analyzeBtn, display, editForm, inFlight,
            arrived, answered, shownError, finalized, crmRecord>>

\* the page as loaded: nothing selected, no analysis, no handler on the
\* Analyze button, every section hidden
PageLoaded ==
    /\ selectedScenario = NoScenario
    /\ currentAnalysisResult = NullAnalysis
    /\ analyzeBtn = [disabled |-> FALSE, onclick |-> FALSE]
    /\ display = [mainDemo |-> FALSE, reviewSection |-> FALSE, editModal |-> FALSE]
    /\ editForm = NoForm
    /\ inFlight = <<>>
    /\ arrived = FALSE
    /\ answered = NoAnswer
    /\ shownError = <<>>
    /\ finalized = <<>>
    /\ crmRecord = NoRecord

----------------------------------------------------------------------------
(* The state machine *)

Init ==
    /\ env \in Envs
    /\ openaiClient = NoClient
    /\ pc = "idle"
    /\ transcription = Undefined
    /\ calls = <<>>
    /\ outstanding = 0
    /\ settled = <<>>
    /\ parsed = <<>>
    /\ outcome = NoOutcome
    /\ route = "none"
    /\ res = <<>>
    /\ PageLoaded

\* the hosting process changes its environment between two requests
SetEnv(e) ==
    /\ pc = "idle"
    /\ e # env
    /\ env' = e
    /\ UNCHANGED <<openaiClient, pc, transcription, calls, outstanding, settled, parsed, outcome, route, res>>
    /\ UNCHANGED uiVars

\* getAIAnalysis(t) up to its first await: ensureOpenAIClient, the request,
\* the first create() call
CallAnalyze(t) ==
    /\ pc = "idle"
    /\ transcription' = t
    /\ settled' = <<>>
    /\ parsed' = <<>>
    /\ LET ensured == ensureOpenAIClient(openaiClient, env)
       IN  /\ openaiClient' = ensured.client
           /\ IF ensured.threw
              THEN /\ pc' = "done"
                   /\ calls' = <<>>
                   /\ outstanding' = 0
                   /\ outcome' = [kind |-> "thrown", value |-> NoValue, error |-> NotConfiguredError]
              ELSE /\ pc' = "await1"
                   /\ calls' = <<LegacyParams(env, t)>>
                   /\ outstanding' = 1
                   /\ outcome' = NoOutcome
    /\ UNCHANGED <<env, route, res>>
    /\ UNCHANGED uiVars

\* router.post('/analyze') up to its first await: initializeOpenAI(), then
\* getAIAnalysis(transcription) as above
RouteAnalyze(t) ==
    /\ pc = "idle"
    /\ transcription' = t
    /\ settled' = <<>>
    /\ parsed' = <<>>
    /\ route' = "pending"
    /\ res' = <<>>
    /\ LET ensured == ensureOpenAIClient(initializeOpenAI(openaiClient, env), env)
       IN  /\ openaiClient' = ensured.client
           /\ IF ensured.threw
              THEN /\ pc' = "done"
                   /\ calls' = <<>>
                   /\ outstanding' = 0
                   /\ outcome' = [kind |-> "thrown", value |-> NoValue, error |-> NotConfiguredError]
              ELSE /\ pc' = "await1"
                   /\ calls' = <<LegacyParams(env, t)>>
                   /\ outstanding' = 1
                   /\ outcome' = NoOutcome
    /\ UNCHANGED env
    /\ UNCHANGED uiVars

\* the first create() resolves: validation and return
PrimaryResolved(r) ==
    /\ pc = "await1"
    /\ settled' = Append(settled, Resolved(r))
    /\ outstanding' = outstanding - 1
    /\ parsed' = parsed \o ValidateResponse(r).parsed
    /\ outcome' = Leave(ValidateResponse(r), env)
    /\ pc' = "done"
    /\ UNCHANGED <<env, openaiClient, transcription, calls, route, res>>
    /\ UNCHANGED uiVars

\* the first create() rejects: the fallback call, or the error leaves
PrimaryRejected(err) ==
    /\ pc = "await1"
    /\ settled' = Append(settled, Rejected(err))
    /\ IF ShouldFallback(err)
       THEN /\ calls' = Append(calls, AlternateParams(env, transcription))
            /\ outstanding' = outstanding - 1 + 1
            /\ pc' = "await2"
            /\ outcome' = outcome
       ELSE /\ calls' = calls
            /\ outstanding' = outstanding - 1
            /\ pc' = "done"
            /\ outcome' = Leave(Thrown(err, <<>>), env)
    /\ UNCHANGED <<env, openaiClient, transcription, parsed, route, res>>
    /\ UNCHANGED uiVars

\* the second create() resolves
AlternateResolved(r) ==
    /\ pc = "await2"
    /\ settled' = Append(settled, Resolved(r))
    /\ outstanding' = outstanding - 1
    /\ parsed' = parsed \o ValidateResponse(r).parsed
    /\ outcome' = Leave(ValidateResponse(r), env)
    /\ pc' = "done"
    /\ UNCHANGED <<env, openaiClient, transcription, calls, route, res>>
    /\ UNCHANGED uiVars

\* AlternateRejected applying the fallback test to the second call as well
AlternateRejected_Retry(err) ==
    /\ pc = "await2"
    /\ settled' = Append(settled, Rejected(err))
    /\ IF ShouldFallback(err)
       THEN /\ calls' = Append(calls, AlternateParams(env, transcription))
            /\ outstanding' = outstanding - 1 + 1
            /\ pc' = "await2"
            /\ outcome' = outcome
       ELSE /\ calls' = calls
            /\ outstanding' = outstanding - 1
            /\ pc' = "done"
            /\ outcome' = Leave(Thrown(err, <<>>), env)
    /\ UNCHANGED <<env, openaiClient, transcription, parsed, route, res>>
    /\ UNCHANGED uiVars

\* the second create() rejects: no further call
AlternateRejected(err) ==
    /\ pc = "await2"
    /\ settled' = Append(settled, Rejected(err))
    /\ outstanding' = outstanding - 1
    /\ outcome' = Leave(Thrown(err, <<>>), env)
    /\ pc' = "done"
    /\ UNCHANGED <<env, openaiClient, transcription, calls, parsed, route, res>>
    /\ UNCHANGED uiVars

\* RouteRespond sending the error response after the success response
RouteRespond_Twice ==
    /\ pc = "done"
    /\ route = "pending"
    /\ route' = "responded"
    /\ res' = res \o <<RouteResponse(outcome),
                       [status |-> 500, success |-> FALSE, hasAnalysis |-> FALSE, analysis |-> NoValue,
                        schema |-> NoSchema, error |-> <<AnalyzeErrorPrefix>>]>>
    /\ UNCHANGED <<env, openaiClient, pc, transcription, calls, outstanding, settled, parsed, outcome>>
    /\ UNCHANGED uiVars

\* router.post('/analyze') after its await: res.json(...) of lines 98-103, or
\* res.status(500).json(...) of lines 107-110
RouteRespond ==
    /\ pc = "done"
    /\ route = "pending"
    /\ route' = "responded"
    /\ res' = Append(res, RouteResponse(outcome))
    /\ UNCHANGED <<env, openaiClient, pc, transcription, calls, outstanding, settled, parsed, outcome>>
    /\ UNCHANGED uiVars

\* the awaiting caller has received the outcome (the handler has responded):
\* the invocation is over
Completed ==
    /\ pc = "done"
    /\ route # "pending"
    /\ route' = "none"
    /\ res' = <<>>
    /\ pc' = "idle"
    /\ transcription' = Undefined
    /\ calls' = <<>>
    /\ settled' = <<>>
    /\ parsed' = <<>>
    /\ outcome' = NoOutcome
    /\ UNCHANGED <<env, openaiClient, outstanding>>
    /\ UNCHANGED uiVars

Next ==
    \/ Completed
    \/ RouteRespond
    \/ \E e \in Envs : SetEnv(e)
    \/ \E t \in Transcripts : CallAnalyze(t)
    \/ \E t \in Transcripts : RouteAnalyze(t)
    \/ \E r \in Responses : PrimaryResolved(r)
    \/ \E err \in TransportErrors : PrimaryRejected(err)
    \/ \E r \in Responses : AlternateResolved(r)
    \/ \E err \in TransportErrors : AlternateRejected(err)

Spec == Init /\ [][Next]_vars

TypeOK ==
    /\ env \in Envs
    /\ pc \in {"idle", "await1", "await2", "done"}
    /\ outstanding \in 0..2
    /\ Len(calls) \in 0..2
    /\ route \in {"none", "pending", "responded"}
    /\ Len(res) \in 0..1

----------------------------------------------------------------------------
(* The browser: the page's handlers *)

\* the sequence without its i-th element
RemoveAt(seq, i) == SubSeq(seq, 1, i - 1) \o SubSeq(seq, i + 1, Len(seq))

\* the changes the reviewer makes in the edit form
UserSelects == { [field |-> "escalationRisk", value |-> "medium"] }
UserTexts == { [field |-> "summary", value |-> <<"Edited by the reviewer">>] }

\* selectScenario leaving the previous analysis and its sections in place
SelectScenario_KeepsAnalysis(scenario) ==
    /\ shownError = <<>>
    /\ ~display.editModal
    /\ selectedScenario' = scenario
    /\ display' = [display EXCEPT !.mainDemo = TRUE]
    /\ analyzeBtn' = [disabled |-> FALSE, onclick |-> TRUE]
    /\ arrived' = FALSE
    /\ UNCHANGED <<currentAnalysisResult, editForm, inFlight, answered, shownError, finalized, crmRecord>>
    /\ UNCHANGED serverVars

\* a click on a scenario button: selectScenario(scenario).  The buttons are in
\* the page until showError overwrites them; the open editor covers the page;
\* hideAnalysisSections hides the review and the CRM sections
SelectScenario(scenario) ==
    /\ shownError = <<>>
    /\ ~display.editModal
    /\ selectedScenario' = scenario
    /\ currentAnalysisResult' = NullAnalysis
    /\ display' = [display EXCEPT !.mainDemo = TRUE, !.reviewSection = FALSE]
    /\ analyzeBtn' = [disabled |-> FALSE, onclick |-> TRUE]
    /\ arrived' = FALSE
    /\ crmRecord' = NoRecord
    /\ UNCHANGED <<editForm, inFlight, answered, shownError, finalized>>
    /\ UNCHANGED serverVars

\* a click on the Analyze button: analyzeConversation() up to its await, the
\* fetch of requestAnalysis() included
AnalyzeConversation ==
    /\ analyzeBtn.onclick
    /\ ~analyzeBtn.disabled
    /\ display.mainDemo
    /\ ~display.editModal
    /\ selectedScenario # NoScenario
    /\ Len(inFlight) < MaxPending
    /\ analyzeBtn' = [analyzeBtn EXCEPT !.disabled = TRUE]
    /\ inFlight' = Append(inFlight, [transcription |-> selectedScenario.transcription,
                                     scenarioId |-> selectedScenario.id])
    /\ UNCHANGED <<selectedScenario, currentAnalysisResult, display, editForm, arrived, answered,
                   shownError, finalized, crmRecord>>
    /\ UNCHANGED serverVars

\* the i-th request in flight settles with answer: the rest of
\* analyzeConversation (requestAnalysis, the displays, catch, finally)
AnalysisSettles(i, answer) ==
    /\ i \in 1..Len(inFlight)
    /\ answer \in AnalyzeAnswers(inFlight[i].transcription)
    /\ inFlight' = RemoveAt(inFlight, i)
    /\ answered' = [answer EXCEPT !.analysis = NullAnalysis]
    /\ analyzeBtn' = [analyzeBtn EXCEPT !.disabled = FALSE]
    /\ IF answer.kind = "network"
       THEN /\ shownError' = <<"Analysis failed: ">> \o answer.error
            /\ UNCHANGED <<currentAnalysisResult, arrived, display>>
       ELSE IF ~answer.ok
       THEN /\ shownError' = <<"Analysis failed: ", "Analysis request failed: HTTP ", ToString(answer.status)>>
            /\ UNCHANGED <<currentAnalysisResult, arrived, display>>
       ELSE /\ currentAnalysisResult' = answer.analysis
            /\ arrived' = TRUE
            /\ IF Renderable(answer.analysis)
               THEN /\ display' = [display EXCEPT !.reviewSection = TRUE]
                    /\ UNCHANGED shownError
               ELSE /\ shownError' = <<"Analysis failed: ">> \o TypeErrorOf("sentiment").message
                    /\ UNCHANGED display
    /\ UNCHANGED <<selectedScenario, editForm, finalized, crmRecord>>
    /\ UNCHANGED serverVars

\* a click on Edit: openAnalysisEditor(); it returns early without an analysis
\* and throws before changing anything when the analysis has no actions
OpenAnalysisEditor ==
    /\ display.reviewSection
    /\ ~display.editModal
    /\ currentAnalysisResult.type # "null"
    /\ "suggestedActions" \in currentAnalysisResult.keys
    /\ editForm' = createEditFormMarkup(currentAnalysisResult)
    /\ display' = [display EXCEPT !.editModal = TRUE]
    /\ UNCHANGED <<selectedScenario, currentAnalysisResult, analyzeBtn, inFlight, arrived, answered,
                   shownError, finalized, crmRecord>>
    /\ UNCHANGED serverVars

\* the reviewer picks another option of a select of the form
EditSelect(change) ==
    /\ display.editModal
    /\ editForm[change.field] # change.value
    /\ editForm' = [editForm EXCEPT ![change.field] = change.value]
    /\ UNCHANGED <<selectedScenario, currentAnalysisResult, analyzeBtn, display, inFlight, arrived,
                   answered, shownError, finalized, crmRecord>>
    /\ UNCHANGED serverVars

\* the reviewer retypes a text control of the form
EditText(change) ==
    /\ display.editModal
    /\ editForm[change.field] # change.value
    /\ editForm' = [editForm EXCEPT ![change.field] = change.value]
    /\ UNCHANGED <<selectedScenario, currentAnalysisResult, analyzeBtn, display, inFlight, arrived,
                   answered, shownError, finalized, crmRecord>>
    /\ UNCHANGED serverVars

\* a click on Cancel or on the close button: closeAnalysisEditor().  The
\* hidden controls are not read again (opening the editor rewrites them), so
\* the model forgets their values
CloseAnalysisEditor ==
    /\ display.editModal
    /\ display' = [display EXCEPT !.editModal = FALSE]
    /\ editForm' = NoForm
    /\ UNCHANGED <<selectedScenario, currentAnalysisResult, analyzeBtn, inFlight, arrived,
                   answered, shownError, finalized, crmRecord>>
    /\ UNCHANGED serverVars

\* a click on Save: saveAnalysisEdits(); the editor closes unless a display
\* function throws on the new object
SaveAnalysisEdits ==
    /\ display.editModal
    /\ currentAnalysisResult' = saveAnalysisEdits(currentAnalysisResult, editForm)
    /\ display' = [display EXCEPT !.editModal = ~Renderable(saveAnalysisEdits(currentAnalysisResult, editForm))]
    /\ editForm' = IF Renderable(saveAnalysisEdits(currentAnalysisResult, editForm)) THEN NoForm ELSE editForm
    /\ UNCHANGED <<selectedScenario, analyzeBtn, inFlight, arrived, answered, shownError,
                   finalized, crmRecord>>
    /\ UNCHANGED serverVars

\* a click on Approve: approveAndFinalize() up to its await, the fetch of
\* submitFinalAnalysis() included
ApproveAndFinalize ==
    /\ display.reviewSection
    /\ ~display.editModal
    /\ currentAnalysisResult.type # "null"
    /\ Len(finalized) < MaxFinalize
    /\ finalized' = Append(finalized, [analysis |-> currentAnalysisResult, scenarioId |-> selectedScenario.id])
    /\ UNCHANGED <<selectedScenario, currentAnalysisResult, analyzeBtn, display, editForm, inFlight,
                   arrived, answered, shownError, crmRecord>>
    /\ UNCHANGED serverVars

\* POST /finalize answers the oldest unanswered request with the record of
\* createMockCRMRecord, and approveAndFinalize displays it
FinalizeSettles(created, now) ==
    /\ finalized # <<>>
    /\ created <= now
    /\ finalized' = Tail(finalized)
    /\ crmRecord' = createMockCRMRecord(Head(finalized).analysis, Head(finalized).scenarioId, created, now)
    /\ UNCHANGED <<selectedScenario, currentAnalysisResult, analyzeBtn, display, editForm, inFlight,
                   arrived, answered, shownError>>
    /\ UNCHANGED serverVars

FinalizeFailedMsg == <<"Failed to create CRM record: ", "Failed to fetch">>

\* the finalize request fails on the network: showError in approveAndFinalize
FinalizeFails ==
    /\ finalized # <<>>
    /\ finalized' = Tail(finalized)
    /\ shownError' = FinalizeFailedMsg
    /\ UNCHANGED <<selectedScenario, currentAnalysisResult, analyzeBtn, display, editForm, inFlight,
                   arrived, answered, crmRecord>>
    /\ UNCHANGED serverVars

\* the page in front of a configured server
UIInit ==
    /\ Init
    /\ env = [AZURE_OPENAI_ENDPOINT |-> <<"https://res.openai.azure.com">>,
              AZURE_OPENAI_KEY |-> "key-1", AZURE_OPENAI_DEPLOYMENT |-> "gpt-4o"]

\* the workflow of the page; the reviewer leaves the controls of the form as
\* the editor filled them
UINext ==
    \/ \E scenario \in Scenarios : SelectScenario(scenario)
    \/ AnalyzeConversation
    \/ \E i \in 1..MaxPending : \E answer \in UNION {AnalyzeAnswers(s.transcription) : s \in Scenarios} :
          AnalysisSettles(i, answer)
    \/ OpenAnalysisEditor
    \/ CloseAnalysisEditor
    \/ SaveAnalysisEdits
    \/ ApproveAndFinalize
    \/ \E created \in {0}, now \in {5000} : FinalizeSettles(created, now)
    \/ FinalizeFails

UISpec == UIInit /\ [][UINext]_vars

\* the review of one received analysis: the page after a scenario was
\* selected and its analysis displayed, with the reviewer's handlers
ReviewInit ==
    /\ env = [AZURE_OPENAI_ENDPOINT |-> <<"https://res.openai.azure.com">>,
              AZURE_OPENAI_KEY |-> "key-1", AZURE_OPENAI_DEPLOYMENT |-> "gpt-4o"]
    /\ openaiClient = NewOpenAI(env)
    /\ pc = "idle"
    /\ transcription = Undefined
    /\ calls = <<>>
    /\ outstanding = 0
    /\ settled = <<>>
    /\ parsed = <<>>
    /\ outcome = NoOutcome
    /\ route = "none"
    /\ res = <<>>
    /\ \E scenario \in Scenarios :
          /\ selectedScenario = scenario
          /\ currentAnalysisResult \in ReviewedAnalyses(scenario.transcription)
    /\ analyzeBtn = [disabled |-> FALSE, onclick |-> TRUE]
    /\ display = [mainDemo |-> TRUE, reviewSection |-> TRUE, editModal |-> FALSE]
    /\ editForm = NoForm
    /\ inFlight = <<>>
    /\ arrived = TRUE
    /\ answered = [NoAnswer EXCEPT !.kind = "http", !.ok = TRUE, !.status = 200]
    /\ shownError = <<>>
    /\ finalized = <<>>
    /\ crmRecord = NoRecord

ReviewNext ==
    \/ OpenAnalysisEditor
    \/ \E change \in UserSelects : EditSelect(change)
    \/ \E change \in UserTexts : EditText(change)
    \/ CloseAnalysisEditor
    \/ SaveAnalysisEdits
    \/ ApproveAndFinalize
    \/ \E created \in Clock, now \in Clock : FinalizeSettles(created, now)
    \/ FinalizeFails

ReviewSpec == ReviewInit /\ [][ReviewNext]_vars

----------------------------------------------------------------------------
(* Vocabulary of the properties *)

\* the two parameter profiles of lines 190-194 and 199-202
IsLegacyCall(c) == c.profile = [temperature |-> "0.1", max_tokens |-> 1000]
IsAlternateCall(c) == c.profile = [max_completion_tokens |-> 2000]

\* a 400 whose message mentions the token-limit or the temperature parameter
IsParameterError(err) ==
    /\ err.status = 400
    /\ \E i \in 1..Len(err.message) : err.message[i] \in {"max_tokens", "temperature"}

\* the invocation has ended and the transport answered its last call with s
Done == pc = "done"
LastSettled == settled[Len(settled)]
EndedOnResolve == Done /\ Len(settled) > 0 /\ LastSettled.kind = "resolved"
EndedOnReject == Done /\ Len(settled) > 0 /\ LastSettled.kind = "rejected"

\* some configuration value is unset
SomeUnset(e) ==
    \/ e.AZURE_OPENAI_ENDPOINT = EndpointUnset
    \/ e.AZURE_OPENAI_KEY = Unset
    \/ e.AZURE_OPENAI_DEPLOYMENT = Unset

\* the completion has a first choice, and what it says
HasFirstChoice(r) == r.hasChoices /\ Len(r.choices) > 0
IsLengthTruncated(r) == HasFirstChoice(r) /\ r.choices[1].finish_reason = "length"
HasNoContent(r) ==
    \/ ~HasFirstChoice(r)
    \/ ~r.choices[1].hasMessage
    \/ r.choices[1].content \in {Null, Undefined, ""}

----------------------------------------------------------------------------
(* C1 *)

\* C1: Configuration gating.  A call of analyze made while no client has been
\* constructed and any one of the three configuration values is unset ends at
\* once with the NotConfigured error (code OPENAI_NOT_CONFIGURED) and without
\* an outbound call; this for each of the three values, the deployment
\* identifier included.
C1_ConfigurationGating ==
    [][ ( /\ pc = "idle"
          /\ env' = env
          /\ ~openaiClient.constructed
          /\ SomeUnset(env) )
        => ( /\ pc' = "done"
             /\ outcome'.kind = "thrown"
             /\ outcome'.error.code = "OPENAI_NOT_CONFIGURED"
             /\ calls' = <<>> ) ]_vars

----------------------------------------------------------------------------
(* C2 - C4: the parameter-compatibility fallback *)

\* C2: Fallback trigger.  Once the first (legacy-profile) call has been
\* rejected with a 400 whose message mentions max_tokens or temperature, two
\* outbound calls have been made, the legacy profile first and the alternate
\* profile second; and when the alternate call resolves with a non-truncated
\* completion whose content is a JSON text, analyze returns.
C2_FallbackTrigger ==
    /\ ( Len(settled) >= 1 /\ settled[1].kind = "rejected" /\ IsParameterError(settled[1].error) )
       => ( /\ Len(calls) = 2
            /\ IsLegacyCall(calls[1])
            /\ IsAlternateCall(calls[2]) )
    /\ ( /\ Len(settled) = 2
         /\ settled[1].kind = "rejected" /\ IsParameterError(settled[1].error)
         /\ settled[2].kind = "resolved"
         /\ HasFirstChoice(settled[2].response)
         /\ ~IsLengthTruncated(settled[2].response)
         /\ settled[2].response.choices[1].hasMessage
         /\ settled[2].response.choices[1].content \in JsonTexts )
       => ( /\ Done
            /\ outcome.kind = "returned"
            /\ Len(calls) = 2 )

C2_Witness ==
    /\ Done
    /\ Len(settled) = 2
    /\ settled[1].kind = "rejected" /\ settled[1].error.status = 400
    /\ Includes(settled[1].error.message, "temperature")
    /\ settled[2].kind = "resolved"
    /\ settled[2].response.choices = <<[finish_reason |-> "stop", hasMessage |-> TRUE, content |-> FullJson]>>
    /\ outcome.kind = "returned"
    /\ Len(calls) = 2

\* C3: No fallback on unrelated outcomes.  A second outbound call exists only
\* if the first call was rejected with a 400 whose message mentions the
\* token-limit or temperature parameter; after any other outcome of the first
\* call the invocation has ended with exactly one outbound call.
C3_NoFallbackOnUnrelated ==
    /\ Len(calls) = 2
       => ( /\ settled[1].kind = "rejected"
            /\ IsParameterError(settled[1].error) )
    /\ ( /\ Len(settled) >= 1
         /\ ~(settled[1].kind = "rejected" /\ IsParameterError(settled[1].error)) )
       => ( Done /\ Len(calls) = 1 /\ Len(settled) = 1 )

\* a 429 whose message happens to mention temperature ended the invocation
\* after one call
C3_Witness ==
    /\ Done
    /\ Len(settled) = 1
    /\ settled[1].kind = "rejected"
    /\ settled[1].error.status = 429
    /\ Includes(settled[1].error.message, "temperature")
    /\ Len(calls) = 1

\* C4: Bounded retry.  An invocation issues at most two outbound calls, never
\* has two of them outstanding, issues the second only after the first was
\* rejected, and ends when the second settles, whatever its failure.
C4_BoundedRetry ==
    /\ Len(calls) <= 2
    /\ outstanding <= 1
    /\ Len(calls) = 2 => ( Len(settled) >= 1 /\ settled[1].kind = "rejected" )
    /\ Len(settled) = 2 => ( Done /\ outstanding = 0 /\ Len(calls) = 2 )
    /\ Len(settled) <= 2

\* the alternate call failed with another 400 parameter error and was not retried
C4_Witness ==
    /\ Done
    /\ Len(calls) = 2
    /\ Len(settled) = 2
    /\ settled[2].kind = "rejected"
    /\ IsParameterError(settled[2].error)
    /\ outcome.kind = "thrown"

----------------------------------------------------------------------------
(* C5 - C7: validation of the completion *)

\* C5: Truncation precedence.  When the completion finally obtained has stop
\* reason 'length', analyze fails with the Truncated error, returns no
\* analysis, and nothing was handed to JSON.parse, whatever the content.
C5_TruncationPrecedence ==
    ( EndedOnResolve /\ IsLengthTruncated(LastSettled.response) )
    => ( /\ outcome.kind = "thrown"
         /\ outcome.error.message = TruncatedMsg
         /\ outcome.value = NoValue
         /\ parsed = <<>> )

\* truncated completions with valid JSON, with no content, and from the
\* alternate profile
C5_Witness ==
    /\ EndedOnResolve
    /\ Len(settled) = 2
    /\ IsLengthTruncated(LastSettled.response)
    /\ LastSettled.response.choices[1].content = FullJson
    /\ outcome.error.message = TruncatedMsg

\* C6: Response shape check.  Every non-truncated completion without content
\* at choices[0].message.content (choices missing, choices empty, no message,
\* content null or empty) makes analyze fail with the MalformedResponse error.
C6_ResponseShapeCheck ==
    ( /\ EndedOnResolve
      /\ ~IsLengthTruncated(LastSettled.response)
      /\ HasNoContent(LastSettled.response) )
    => ( /\ outcome.kind = "thrown"
         /\ outcome.error.message = MissingContentMsg )

\* C7 (as stated): content present, not truncated, not decodable: analyze
\* fails with the InvalidJson error, which carries the decoder's error.
C7_InvalidJsonCarriesDecodeError ==
    ( /\ EndedOnResolve
      /\ ~IsLengthTruncated(LastSettled.response)
      /\ ~HasNoContent(LastSettled.response)
      /\ LastSettled.response.choices[1].content \notin JsonTexts )
    => ( /\ outcome.kind = "thrown"
         /\ outcome.error.message = InvalidJsonMsg
         /\ outcome.error.cause = SyntaxErrorName )

\* C7 (amended): content present, not truncated, not decodable: analyze fails
\* with the InvalidJson error, a new error with the fixed message that does
\* not carry the decoder's error; the content was handed to JSON.parse once.
C7_InvalidJson ==
    ( /\ EndedOnResolve
      /\ ~IsLengthTruncated(LastSettled.response)
      /\ ~HasNoContent(LastSettled.response)
      /\ LastSettled.response.choices[1].content \notin JsonTexts )
    => ( /\ outcome.kind = "thrown"
         /\ outcome.error.message = InvalidJsonMsg
         /\ outcome.error.name = "Error"
         /\ outcome.error.cause = "none"
         /\ parsed = <<LastSettled.response.choices[1].content>> )

C7_Witness ==
    /\ EndedOnResolve
    /\ LastSettled.response.choices = <<[finish_reason |-> "stop", hasMessage |-> TRUE, content |-> PartialJson]>>
    /\ outcome.kind = "thrown"
    /\ outcome.error.message = InvalidJsonMsg

----------------------------------------------------------------------------
(* C8 - C10: classification of transport errors *)

\* the HTTP status a rejected call carries (on the error or on its response)
StatusIs(err, n) == err.status = n \/ err.respStatus = n

\* C8: Deployment not found.  When the call that ended the invocation was
\* rejected with status 404, analyze fails with the DeploymentNotFound error,
\* whose message names the configured deployment identifier.
C8_DeploymentNotFound ==
    ( EndedOnReject /\ StatusIs(LastSettled.error, 404) )
    => ( /\ outcome.kind = "thrown"
         /\ outcome.error.message[1] = "Deployment '"
         /\ outcome.error.message[3] = "' not found."
         /\ env.AZURE_OPENAI_DEPLOYMENT # Unset
            => outcome.error.message[2] = env.AZURE_OPENAI_DEPLOYMENT )

\* a 404 on the alternate call, with a deployment configured
C8_Witness ==
    /\ EndedOnReject
    /\ Len(settled) = 2
    /\ LastSettled.error.status = 404
    /\ env.AZURE_OPENAI_DEPLOYMENT = "gpt-5"
    /\ Includes(outcome.error.message, "gpt-5")

\* C9: Authentication failure.  A 401 on the legacy call makes analyze fail
\* with the AuthenticationFailed error after exactly one outbound call; a 401
\* on the alternate call is classified the same way.
C9_AuthenticationFailed ==
    /\ ( Done /\ Len(settled) >= 1 /\ settled[1].kind = "rejected" /\ StatusIs(settled[1].error, 401) )
       => ( /\ outcome.kind = "thrown"
            /\ outcome.error.message = AuthFailedMsg
            /\ Len(calls) = 1 )
    /\ ( Done /\ Len(settled) = 2 /\ settled[2].kind = "rejected" /\ StatusIs(settled[2].error, 401) )
       => ( /\ outcome.kind = "thrown"
            /\ outcome.error.message = AuthFailedMsg )

C9_Witness ==
    /\ Done
    /\ Len(settled) = 1
    /\ settled[1].kind = "rejected"
    /\ settled[1].error.status = 401
    /\ Len(calls) = 1
    /\ outcome.error.message = AuthFailedMsg

\* C10: Pass-through.  When the call that ended the invocation was rejected
\* with anything other than a 404 or a 401, analyze throws that very error:
\* same name, message, status and code.
C10_PassThrough ==
    ( /\ EndedOnReject
      /\ ~StatusIs(LastSettled.error, 404)
      /\ ~StatusIs(LastSettled.error, 401) )
    => ( /\ outcome.kind = "thrown"
         /\ outcome.error = LastSettled.error )

\* a 500 on the first call and a network error on the second both pass through
C10_Witness ==
    /\ EndedOnReject
    /\ Len(settled) = 2
    /\ LastSettled.error.name = "APIConnectionError"
    /\ outcome.error = LastSettled.error

----------------------------------------------------------------------------
(* C11 - C13: what analyze hands back *)

\* C11 (as stated): every failure analyze returns for a rejected call carries
\* the original message and the HTTP status the provider supplied; the
\* failures returned for a 404 and a 401 still carry the status 404 or 401.
C11_DetailPreserved ==
    EndedOnReject
    => ( /\ outcome.kind = "thrown"
         /\ outcome.error.message = LastSettled.error.message
         /\ HttpStatus(outcome.error) = HttpStatus(LastSettled.error) )

\* C11 (amended): a rejection with a status other than 404 and 401 is returned
\* with its original message and its HTTP status; the failures returned for a
\* 404 and a 401 are new errors that carry a fixed message, not the original
\* one, and no HTTP status.
C11_DetailPreservedExceptClassified ==
    /\ ( EndedOnReject /\ HttpStatus(LastSettled.error) \notin {404, 401} )
       => ( /\ outcome.kind = "thrown"
            /\ outcome.error.message = LastSettled.error.message
            /\ outcome.error.status = LastSettled.error.status
            /\ outcome.error.respStatus = LastSettled.error.respStatus )
    /\ ( EndedOnReject /\ HttpStatus(LastSettled.error) \in {404, 401} )
       => ( /\ outcome.kind = "thrown"
            /\ outcome.error.message # LastSettled.error.message
            /\ outcome.error.status = NoStatus
            /\ outcome.error.respStatus = NoStatus )

\* a 429 is returned with its status
C11_Witness ==
    /\ EndedOnReject
    /\ LastSettled.error.status = 429
    /\ outcome.error.status = 429
    /\ outcome.error.message = LastSettled.error.message

\* C12: End-to-end success.  When the completion finally obtained (from
\* either profile) is not truncated and its content is a JSON text, analyze
\* returns the value that text decodes to, with every field of the text and
\* no other.
C12_EndToEndSuccess ==
    ( /\ EndedOnResolve
      /\ ~IsLengthTruncated(LastSettled.response)
      /\ ~HasNoContent(LastSettled.response)
      /\ LastSettled.response.choices[1].content \in JsonTexts )
    => ( /\ outcome.kind = "returned"
         /\ outcome.value = JSONParse(LastSettled.response.choices[1].content).value
         /\ LastSettled.response.choices[1].content = FullJson
            => ( /\ outcome.value.type = "object"
                 /\ outcome.value.keys = customerServiceSchema.required
                 /\ outcome.value.sentiment = "negative"
                 /\ outcome.value.escalationRisk = "medium" )
         /\ LastSettled.response.choices[1].content = ExtraFieldJson
            => "extra" \in outcome.value.keys )

\* the full analysis came back from the alternate profile
C12_Witness ==
    /\ EndedOnResolve
    /\ Len(settled) = 2
    /\ HasFirstChoice(LastSettled.response)
    /\ LastSettled.response.choices[1].finish_reason = "stop"
    /\ LastSettled.response.choices[1].content = FullJson
    /\ outcome.kind = "returned"
    /\ outcome.value.sentiment = "negative"
    /\ outcome.value.escalationRisk = "medium"

\* the value has the eight fields of the schema and keyInformation its five
SchemaClosed(v) ==
    /\ v.type = "object"
    /\ v.keys = customerServiceSchema.required
    /\ v.keyInformation = customerServiceSchema.keyInformation

\* C13 (as stated): Schema closure.  Every value analyze returns has the eight
\* required top-level fields and no other, and its keyInformation has exactly
\* the five named sub-fields, whatever content the provider returned.
C13_SchemaClosure ==
    ( Done /\ outcome.kind = "returned" ) => SchemaClosed(outcome.value)

\* C13 (amended): analyze does not validate the decoded value.  The value it
\* returns is schema-closed when the provider's content conforms to the
\* schema; the JSON texts {}, null, 42 and an object with an extra field are
\* returned as they decode, and are not schema-closed.
C13_SchemaClosureOfConformingContent ==
    /\ ( EndedOnResolve /\ outcome.kind = "returned" /\ LastSettled.response.choices[1].content = FullJson )
       => SchemaClosed(outcome.value)
    /\ ( /\ EndedOnResolve
         /\ ~IsLengthTruncated(LastSettled.response)
         /\ ~HasNoContent(LastSettled.response)
         /\ LastSettled.response.choices[1].content \in {EmptyObjectJson, NullJson, NumberJson, ExtraFieldJson} )
       => ( /\ outcome.kind = "returned"
            /\ ~SchemaClosed(outcome.value)
            /\ LastSettled.response.choices[1].content = ExtraFieldJson
               => outcome.value.keys = customerServiceSchema.required \cup {"extra"}
            /\ LastSettled.response.choices[1].content # ExtraFieldJson
               => outcome.value.keys = {} )

\* the JSON text null was returned as the analysis
C13_Witness ==
    /\ EndedOnResolve
    /\ HasFirstChoice(LastSettled.response)
    /\ LastSettled.response.choices[1].content = NullJson
    /\ outcome.kind = "returned"
    /\ outcome.value.type = "null"

----------------------------------------------------------------------------
(* C14 - C17: configuration and the module-level client *)

\* a step that starts a request: getAIAnalysis called directly or by the handler
RequestStarts == pc = "idle" /\ pc' # "idle"

\* C14: Every request is gated on the current configuration.  A request made
\* while any of the three configuration values is absent fails with the
\* configuration error and makes no outbound call, also when an earlier
\* request has constructed the client and the values were removed afterwards.
C14_EveryRequestGated ==
    [][ ( RequestStarts /\ SomeUnset(env) )
        => ( /\ pc' = "done"
             /\ outcome'.kind = "thrown"
             /\ outcome'.error.code = "OPENAI_NOT_CONFIGURED"
             /\ calls' = <<>> ) ]_vars

\* C15: Client lifecycle.  Once the module-level client is set, no step sets
\* it back to empty or replaces it; a request that fails with NotConfigured
\* leaves it unset; a request made with the client unset and the endpoint and
\* the key supplied constructs it from the current values.
C15_ClientLifecycle ==
    [][ /\ openaiClient.constructed => openaiClient' = openaiClient
        /\ ( RequestStarts /\ outcome'.error.code = "OPENAI_NOT_CONFIGURED" )
           => ( ~openaiClient.constructed /\ openaiClient' = NoClient )
        /\ ( /\ RequestStarts
             /\ ~openaiClient.constructed
             /\ env.AZURE_OPENAI_ENDPOINT # EndpointUnset
             /\ env.AZURE_OPENAI_KEY # Unset )
           => ( /\ openaiClient'.constructed
                /\ openaiClient'.apiKey = env.AZURE_OPENAI_KEY
                /\ pc' = "await1" ) ]_vars

\* a request is being served by a client built from values since removed
C15_Witness ==
    /\ pc = "await1"
    /\ route = "pending"
    /\ openaiClient.constructed
    /\ openaiClient.apiKey = "key-1"
    /\ env.AZURE_OPENAI_KEY = Unset

\* C16: Idempotent configuration.  Whenever the client is constructed, its
\* base URL is the endpoint without its trailing slash, followed by the
\* deployment identifier of the environment, its query carries the api-version
\* marker 2024-08-01-preview, and the request then made names the same
\* deployment as its model: the addressing depends on the environment values
\* only, and an endpoint with and without trailing slash gives the same URL.
C16_IdempotentConfiguration ==
    [][ ( ~openaiClient.constructed /\ openaiClient'.constructed )
        => ( /\ openaiClient'.baseURL =
                    <<"https://res.openai.azure.com", "/openai/deployments/",
                      IF env.AZURE_OPENAI_DEPLOYMENT = Unset THEN "undefined"
                      ELSE env.AZURE_OPENAI_DEPLOYMENT>>
             /\ openaiClient'.defaultQuery = "api-version=2024-08-01-preview"
             /\ Len(calls') = 1
             /\ calls'[1].base.model = env.AZURE_OPENAI_DEPLOYMENT ) ]_vars

\* the client was constructed from an endpoint that ends with a slash
C16_Witness ==
    /\ pc = "await1"
    /\ env.AZURE_OPENAI_ENDPOINT = <<"https://res.openai.azure.com", "/">>
    /\ env.AZURE_OPENAI_DEPLOYMENT = "gpt-4o"
    /\ openaiClient.baseURL = <<"https://res.openai.azure.com", "/openai/deployments/", "gpt-4o">>
    /\ calls[1].base.model = "gpt-4o"

\* C17: Frame of analyze.  No step of an invocation (its start, the settling
\* of a call, the fallback, its end) changes the environment values or the
\* transcript it was given, and the only change to the module-level client is
\* its one construction from unset; the schema sent with every call is
\* customerServiceSchema.
C17_FrameOfAnalyze ==
    [][ ( pc # "idle" \/ pc' # "idle" )
        => ( /\ env' = env
             /\ \/ openaiClient' = openaiClient
                \/ ( ~openaiClient.constructed /\ openaiClient'.constructed /\ pc = "idle" )
             /\ ( pc # "idle" /\ pc' # "idle" ) => transcription' = transcription
             /\ \A i \in 1..Len(calls') :
                   calls'[i].base.response_format.schema = customerServiceSchema ) ]_vars

\* an invocation that fell back and failed, the client in place
C17_Witness ==
    /\ pc = "done"
    /\ Len(calls) = 2
    /\ outcome.kind = "thrown"
    /\ outcome.error.message = TruncatedMsg
    /\ openaiClient.constructed
    /\ transcription = "Agent: Hello."

----------------------------------------------------------------------------
(* C18: the two parameter profiles *)

\* C18: Parameter profiles.  The first call of an invocation has temperature
\* 0.1 and max_tokens 1000 and no max_completion_tokens; the second, when
\* made, has max_completion_tokens 2000 and neither temperature nor
\* max_tokens.  Apart from these the two calls are identical: the deployment
\* as model, the system instruction, the user message embedding the
\* transcript, and the response format naming the schema, strict.
C18_ParameterProfiles ==
    /\ Len(calls) >= 1
       => ( /\ DOMAIN calls[1].profile = {"temperature", "max_tokens"}
            /\ calls[1].profile.temperature = "0.1"
            /\ calls[1].profile.max_tokens = 1000 )
    /\ Len(calls) = 2
       => ( /\ DOMAIN calls[2].profile = {"max_completion_tokens"}
            /\ calls[2].profile.max_completion_tokens = 2000
            /\ calls[2].base = calls[1].base )
    /\ \A i \in 1..Len(calls) :
          /\ calls[i].base.model = env.AZURE_OPENAI_DEPLOYMENT
          /\ Len(calls[i].base.messages) = 2
          /\ calls[i].base.messages[1] = [role |-> "system", content |-> <<SystemInstruction>>]
          /\ calls[i].base.messages[2].role = "user"
          /\ Includes(calls[i].base.messages[2].content, transcription)
          /\ calls[i].base.response_format.type = "json_schema"
          /\ calls[i].base.response_format.name = "customer_service_analysis"
          /\ calls[i].base.response_format.strict
          /\ calls[i].base.response_format.schema = customerServiceSchema

\* both calls have been issued
C18_Witness ==
    /\ pc = "await2"
    /\ Len(calls) = 2
    /\ calls[1].profile.max_tokens = 1000
    /\ calls[2].profile.max_completion_tokens = 2000
    /\ calls[2].base.model = "gpt-5"

----------------------------------------------------------------------------
(* C19 - C20: the outcome and the response of POST /analyze *)

\* every outbound call eventually resolves or rejects
CallSettles ==
    \/ \E r \in Responses : PrimaryResolved(r)
    \/ \E err \in TransportErrors : PrimaryRejected(err)
    \/ \E r \in Responses : AlternateResolved(r)
    \/ \E err \in TransportErrors : AlternateRejected(err)

\* the transport settles every call, and the event loop runs the handler's
\* continuation
FairSpec == Spec /\ WF_vars(CallSettles) /\ WF_vars(RouteRespond)

\* the invocation ended with a returned value or with one error, not both
OneOutcome ==
    \/ outcome.kind = "returned" /\ outcome.error = NoError
    \/ outcome.kind = "thrown" /\ outcome.error # NoError /\ outcome.value = NoValue

\* C19: Exactly one outcome.  Every invocation whose calls settle ends, with
\* either a returned analysis or one failure; before it ends it has no
\* outcome; and the handler of POST /analyze then sends exactly one response.
C19_ExactlyOneOutcome ==
    /\ []( pc = "done" => OneOutcome )
    /\ []( pc \in {"await1", "await2"} => ( outcome = NoOutcome /\ res = <<>> ) )
    /\ []( route = "pending" => res = <<>> )
    /\ []( route = "responded" => ( pc = "done" /\ Len(res) = 1 ) )
    /\ ( pc \in {"await1", "await2"} ~> pc = "done" )
    /\ ( route = "pending" ~> route = "responded" )

\* the handler has answered an invocation that fell back and failed
C19_Witness ==
    /\ route = "responded"
    /\ Len(res) = 1
    /\ Len(calls) = 2
    /\ outcome.kind = "thrown"

C24_DeploymentConsistency ==
    /\ \A i \in 1..Len(calls) :
          TemplateStr(calls[i].base.model) = openaiClient.baseURL[Len(openaiClient.baseURL)]
    /\ ( /\ Len(calls) > 0
         /\ outcome.kind = "thrown"
         /\ Len(outcome.error.message) >= 3
         /\ outcome.error.message[1] = "Deployment '" )
       => outcome.error.message[2] = openaiClient.baseURL[Len(openaiClient.baseURL)]

----------------------------------------------------------------------------
(* Vocabulary of the browser's properties *)

\* text contains part as a run of consecutive pieces
Contains(text, part) ==
    \E i \in 0..(Len(text) - Len(part)) : SubSeq(text, i + 1, i + Len(part)) = part

\* the transcript an analysis was extracted from, read off its key information
ProducedFrom(analysis) == analysis.keyInformation.orderNumber[2]
HasProvenance(analysis) == analysis.type = "object" /\ "keyInformation" \in analysis.keys

\* the transcript of the scenario with this id
TranscriptOf(id) == (CHOOSE s \in Scenarios : s.id = id).transcription

\* this step sends a finalize request
FinalizeSent == Len(finalized') > Len(finalized)

\* this step is POST /finalize answering the oldest request with a record
\* (a step that removes a request and leaves the page without the message of
\* a failed finalize request)
FinalizeAnswered ==
    /\ finalized # <<>>
    /\ finalized' = Tail(finalized)
    /\ shownError' # FinalizeFailedMsg

\* the resolution window, in hours, that goes with a priority
WindowOf(priority) ==
    CASE priority = "High" -> 4
      [] priority = "Medium" -> 24
      [] priority = "Low" -> 72

\* C21: Human review precedes CRM.  A finalize request is sent only when an
\* analysis was received since the last scenario selection, and the analysis
\* it carries is the one the page holds at that moment (with the edits saved
\* into it); between a selection and the next analysis nothing is sent.
C21_ReviewPrecedesCRM ==
    [][ FinalizeSent
        => ( /\ arrived
             /\ currentAnalysisResult.type = "object"
             /\ Len(finalized') = Len(finalized) + 1
             /\ finalized'[Len(finalized')].analysis = currentAnalysisResult
             /\ currentAnalysisResult' = currentAnalysisResult ) ]_vars

\* a finalize request in flight that carries the analysis received for the
\* selected scenario
C21_Witness ==
    /\ finalized # <<>>
    /\ arrived
    /\ display.reviewSection
    /\ finalized[1].analysis = currentAnalysisResult
    /\ currentAnalysisResult = CleanAnalysis(selectedScenario.transcription)

\* C22: Error surfacing in the UI.  When the analyze request fails with a
\* classified failure, the error the page shows contains the message of that
\* failure as the route returned it.
C22_ClassifiedMessageShown ==
    ( answered.kind = "http" /\ ~answered.ok )
    => Contains(shownError, Tail(answered.error))

\* C23: CRM priority mapping.  The record's priority is High exactly for
\* escalationRisk 'high', Medium exactly for 'medium' and Low for every other
\* value; its estimated resolution is 4, 24 or 72 hours after the instant it
\* was computed, the window that goes with the priority.
C23_PriorityMapping ==
    [][ FinalizeAnswered
        => ( /\ crmRecord'.created
             /\ crmRecord'.priority = "High" <=> Head(finalized).analysis.escalationRisk = "high"
             /\ crmRecord'.priority = "Medium" <=> Head(finalized).analysis.escalationRisk = "medium"
             /\ crmRecord'.priority = "Low" <=> Head(finalized).analysis.escalationRisk \notin {"high", "medium"}
             /\ \E now \in Clock :
                   /\ now >= crmRecord'.createdAt
                   /\ crmRecord'.estimatedResolution
                        = now + WindowOf(crmRecord'.priority) * 60 * 60 * 1000 ) ]_vars

\* a record of priority Low built for the out-of-schema risk 'critical'
C23_Witness ==
    /\ crmRecord.created
    /\ crmRecord.priority = "Low"
    /\ crmRecord.estimatedResolution = 5000 + 72 * 60 * 60 * 1000
    /\ currentAnalysisResult.escalationRisk = "critical"

\* C25: Stale analysis responses.  The analysis the page holds was produced
\* from the transcript of the scenario now selected, and every finalize
\* request carries an analysis produced from the transcript of the scenario
\* whose id it carries.
C25_AnalysisOfSelectedScenario ==
    /\ HasProvenance(currentAnalysisResult)
       => ProducedFrom(currentAnalysisResult) = selectedScenario.transcription
    /\ \A i \in 1..Len(finalized) :
          HasProvenance(finalized[i].analysis)
          => ProducedFrom(finalized[i].analysis) = TranscriptOf(finalized[i].scenarioId)

\* C26: One analysis request at a time.  While an analysis request is in
\* flight the Analyze button is disabled, so there are never two requests in
\* flight; when none is in flight the button (once armed) is enabled.
C26_OneRequestAtATime ==
    /\ Len(inFlight) > 0 => analyzeBtn.disabled
    /\ Len(inFlight) <= 1
    /\ ( Len(inFlight) = 0 /\ analyzeBtn.onclick ) => ~analyzeBtn.disabled

\* C27: Frame of a human edit.  Saving the editor replaces sentiment,
\* escalationRisk, primaryIntent, summary and suggestedActions with what the
\* form holds, and leaves every other field of the held analysis as it was:
\* present exactly when it was present, with the same value.
C27_FrameOfEdit ==
    [][ ( display.editModal /\ currentAnalysisResult' # currentAnalysisResult )
        => ( /\ currentAnalysisResult'.sentiment = editForm.sentiment
             /\ currentAnalysisResult'.escalationRisk = editForm.escalationRisk
             /\ currentAnalysisResult'.primaryIntent = editForm.primaryIntent
             /\ currentAnalysisResult'.summary = editForm.summary
             /\ currentAnalysisResult'.suggestedActions = parseCommaSeparatedValues(editForm.actions)
             /\ currentAnalysisResult'.keys \ EditedFields = currentAnalysisResult.keys \ EditedFields
             /\ currentAnalysisResult'.keyInformation = currentAnalysisResult.keyInformation
             /\ currentAnalysisResult'.commitments = currentAnalysisResult.commitments
             /\ currentAnalysisResult'.confidenceScore = currentAnalysisResult.confidenceScore ) ]_vars

\* an analysis with an edited summary and risk that kept its key information,
\* commitments, confidence score and all eight keys
C27_Witness ==
    /\ ~display.editModal
    /\ currentAnalysisResult.summary = <<"Edited by the reviewer">>
    /\ currentAnalysisResult.escalationRisk = "medium"
    /\ currentAnalysisResult.sentiment = "frustrated"
    /\ currentAnalysisResult.keys = AnalysisFields
    /\ currentAnalysisResult.keyInformation = CleanAnalysis(selectedScenario.transcription).keyInformation
    /\ currentAnalysisResult.commitments = << <<"callback_by_friday">> >>
    /\ currentAnalysisResult.confidenceScore = 90

\* C28: Edit round trip.  Saving the editor with the controls as the editor
\* filled them leaves the held analysis unchanged; in particular the list of
\* suggested actions, written as comma-separated text and parsed back, is the
\* original list.
C28_EditRoundTrip ==
    [][ ( /\ display.editModal
          /\ currentAnalysisResult.type = "object"
          /\ "suggestedActions" \in currentAnalysisResult.keys
          /\ editForm = createEditFormMarkup(currentAnalysisResult) )
        => currentAnalysisResult' = currentAnalysisResult ]_vars

====
